---------------------------- MODULE Spec2Model ----------------------------
(***************************************************************************)
(* bip39-lastword: derive the 12th BIP39 word from the first 11 words.     *)
(*                                                                         *)
(* Two programs are modelled, each as one run of its main():               *)
(*   "lastword"  src/bip39-lastword.py        (argparse front end)         *)
(*   "tools"     src/tools/bip39-lastword.py  (sys.argv front end)         *)
(*                                                                         *)
(* Representation.  A Python str is a sequence of one-character strings,   *)
(* so that split, join, repr and strip are computed character by           *)
(* character.  Word indices are 0-based as in Python; a 0-based index i    *)
(* addresses position i+1 of the corresponding sequence.  A line of        *)
(* output is a sequence of text pieces whose concatenation is the line.    *)
(*                                                                         *)
(* Library code.  Mnemonic("english").wordlist is a list of 2048 distinct  *)
(* lower-case words; it is modelled by 2048 distinct four-letter words.    *)
(* hashlib.sha256 is modelled as a deterministic function of the 16 input  *)
(* bytes, taken from a family indexed by `seed`; nothing in the programs   *)
(* depends on more than its being a function of the bytes.                 *)
(***************************************************************************)
EXTENDS Integers, Sequences, FiniteSets, TLC

VARIABLES prog, argv, seed, pc, words11, res, stdout, stderr, exitcode

vars == <<prog, argv, seed, pc, words11, res, stdout, stderr, exitcode>>

-----------------------------------------------------------------------------
(* Program constants *)

NumWords == 11
NumTails == 128
WordlistSize == 2048
WordBits == 11
TailBits == 7
ChecksumShift == 4
EntropyBytes == 16

(* Bounds of the model *)

MaxWords == 12
NumStarts == 2
NumBad == 6
MaxSeed == 1

-----------------------------------------------------------------------------
(* Generic sequence helpers *)

RECURSIVE Concat(_)
Concat(ss) == IF ss = <<>> THEN <<>> ELSE Head(ss) \o Concat(Tail(ss))

Contains(s, c) == \E k \in 1..Len(s) : s[k] = c

-----------------------------------------------------------------------------
(* The wordlist and the lookups built from it *)

Letters == <<"a", "b", "c", "d", "e", "f", "g", "h">>

WordOf(i) ==
    << Letters[((i \div 512) % 8) + 1], Letters[((i \div 64) % 8) + 1],
       Letters[((i \div 8) % 8) + 1],   Letters[(i % 8) + 1] >>

wordlist == [k \in 1..WordlistSize |-> WordOf(k - 1)]

word2idx ==
    [w \in {wordlist[k] : k \in 1..WordlistSize} |->
        CHOOSE i \in 0..(WordlistSize - 1) : wordlist[i + 1] = w]


-----------------------------------------------------------------------------
(* Python string operations, character by character *)

Space == " "
Apostrophe == "'"
DoubleQuote == "\""
Backslash == "\\"

(* str(n) for n >= 0, as in the f-string fields {len(words11)}, {tail}, {index} *)
RECURSIVE Decimal(_)
Decimal(n) ==
    LET d == <<"0", "1", "2", "3", "4", "5", "6", "7", "8", "9">>[(n % 10) + 1]
    IN  IF n < 10 THEN <<d>> ELSE Append(Decimal(n \div 10), d)

(* s.strip(): leading and trailing whitespace removed *)
RECURSIVE LStrip(_, _)
LStrip(s, c) == IF s # <<>> /\ Head(s) = c THEN LStrip(Tail(s), c) ELSE s

RECURSIVE RStrip(_, _)
RStrip(s, c) ==
    IF s # <<>> /\ s[Len(s)] = c THEN RStrip(SubSeq(s, 1, Len(s) - 1), c) ELSE s

Strip(s, c) == RStrip(LStrip(s, c), c)

(* s.split(): maximal runs of non-whitespace characters *)
RECURSIVE SplitFrom(_, _, _)
SplitFrom(s, cur, acc) ==
    IF s = <<>>
    THEN IF cur = <<>> THEN acc ELSE Append(acc, cur)
    ELSE IF Head(s) = Space
         THEN SplitFrom(Tail(s), <<>>, IF cur = <<>> THEN acc ELSE Append(acc, cur))
         ELSE SplitFrom(Tail(s), Append(cur, Head(s)), acc)

Split(s) == SplitFrom(s, <<>>, <<>>)

(* " ".join(ws) *)
RECURSIVE Join(_)
Join(ws) ==
    IF ws = <<>> THEN <<>>
    ELSE IF Len(ws) = 1 THEN ws[1]
    ELSE ws[1] \o <<Space>> \o Join(Tail(ws))

(* mnemonic.split(" ") as Mnemonic.check does it: every single space separates *)
RECURSIVE SplitOnSpace(_, _, _)
SplitOnSpace(s, cur, acc) ==
    IF s = <<>> THEN Append(acc, cur)
    ELSE IF Head(s) = Space
         THEN SplitOnSpace(Tail(s), <<>>, Append(acc, cur))
         ELSE SplitOnSpace(Tail(s), Append(cur, Head(s)), acc)

(* repr(s) of a str of printable ASCII: quoted with ' unless s holds a ' and
   no ", backslashes and the enclosing quote escaped *)
ReprQuote(s) ==
    IF Contains(s, Apostrophe) /\ ~Contains(s, DoubleQuote)
    THEN DoubleQuote ELSE Apostrophe

RECURSIVE ReprBody(_, _)
ReprBody(s, q) ==
    IF s = <<>> THEN <<>>
    ELSE (IF Head(s) = Backslash \/ Head(s) = q
          THEN <<Backslash, Head(s)>> ELSE <<Head(s)>>) \o ReprBody(Tail(s), q)

Repr(s) == <<ReprQuote(s)>> \o ReprBody(s, ReprQuote(s)) \o <<ReprQuote(s)>>

(* str(KeyError(w)) is repr(w) *)
StrKeyError(w) == Repr(w)

-----------------------------------------------------------------------------
(* Bit strings: sequences of the characters "0" and "1" *)

RECURSIVE BinDigits(_)
BinDigits(n) ==
    LET d == IF n % 2 = 0 THEN "0" ELSE "1"
    IN  IF n < 2 THEN <<d>> ELSE Append(BinDigits(n \div 2), d)

RECURSIVE ZFill(_, _)
ZFill(s, width) == IF Len(s) >= width THEN s ELSE ZFill(<<"0">> \o s, width)

(* f"{n:0{width}b}" and bin(n)[2:].zfill(width) *)
FormatBin(n, width) == ZFill(BinDigits(n), width)

(* int(s, 2) for a bit string short enough to fit an integer *)
RECURSIVE ParseBin(_)
ParseBin(s) ==
    IF s = <<>> THEN 0
    ELSE 2 * ParseBin(SubSeq(s, 1, Len(s) - 1)) + (IF s[Len(s)] = "1" THEN 1 ELSE 0)

(* int(bits, 2).to_bytes(nbytes, "big"): the value of the bit string, right
   aligned in nbytes bytes.  A value that does not fit raises OverflowError. *)
Overflows(bits, nbytes) ==
    Len(bits) > 8 * nbytes /\ Contains(SubSeq(bits, 1, Len(bits) - 8 * nbytes), "1")

ToBytes(bits, nbytes) ==
    LET n == Len(bits)
        b == IF n >= 8 * nbytes THEN SubSeq(bits, n - 8 * nbytes + 1, n)
                                ELSE ZFill(bits, 8 * nbytes)
    IN  [k \in 1..nbytes |-> ParseBin(SubSeq(b, 8 * k - 7, 8 * k))]

(* hashlib.sha256(data).digest()[0]: a deterministic function of the bytes *)
RECURSIVE Mix(_, _, _)
Mix(h, data, k) ==
    IF k > Len(data) THEN h
    ELSE Mix((h * 131 + data[k] + 17 * k) % 256, data, k + 1)

Sha256Byte0(sd, data) == Mix((89 + 101 * sd) % 256, data, 1)

(* x >> n and x << n on non-negative integers *)
ShiftRight(x, n) == x \div (2 ^ n)
ShiftLeft(x, n) == x * (2 ^ n)

(* x | y on non-negative integers, bit by bit *)
RECURSIVE BitOr(_, _)
BitOr(x, y) ==
    IF x = 0 THEN y
    ELSE IF y = 0 THEN x
    ELSE 2 * BitOr(x \div 2, y \div 2) + (IF x % 2 = 1 \/ y % 2 = 1 THEN 1 ELSE 0)

-----------------------------------------------------------------------------
(* Results of a call: a normal return of `value`, or an exception raised *)

NoResult == [status |-> "none", value |-> <<>>, type |-> "", msg |-> <<>>]
Return(v) == [status |-> "return", value |-> v, type |-> "", msg |-> <<>>]
Raise(t, m) == [status |-> "raise", value |-> <<>>, type |-> t, msg |-> m]

-----------------------------------------------------------------------------
(* Mnemonic.check(phrase) of the mnemonic library, for the English wordlist *)

ValidLengths == {12, 15, 18, 21, 24}

MnemonicCheck(sd, phrase) ==
    LET mnemonic_list == SplitOnSpace(phrase, <<>>, <<>>)
    IN  IF Len(mnemonic_list) \notin ValidLengths THEN FALSE
        ELSE IF \E k \in 1..Len(mnemonic_list) :
                    mnemonic_list[k] \notin DOMAIN word2idx THEN FALSE
        ELSE LET b  == Concat([k \in 1..Len(mnemonic_list) |->
                                 FormatBin(word2idx[mnemonic_list[k]], WordBits)])
                 l  == Len(b)
                 cs == l \div 33
                 d  == SubSeq(b, 1, cs * 32)
                 h  == SubSeq(b, l - cs + 1, l)
                 nd == ToBytes(d, cs * 4)
                 nh == SubSeq(FormatBin(Sha256Byte0(sd, nd), 8), 1, cs)
             IN  h = nh

-----------------------------------------------------------------------------
(* Steps shared by the two enumerators *)

CountMessage(n) == <<"Expected exactly 11 words, got ">> \o Decimal(n) \o <<".">>

(* the first word of ws that is not a key of word2idx: the KeyError's key *)
FirstUnknown(ws) ==
    ws[CHOOSE k \in 1..Len(ws) :
          /\ ws[k] \notin DOMAIN word2idx
          /\ \A j \in 1..(k - 1) : ws[j] \in DOMAIN word2idx]

UnknownMessage(w) ==
    <<"Word not in BIP39 English wordlist: '">>
        \o Strip(StrKeyError(w), Apostrophe) \o <<"'">>

Bits121(ws) == Concat([k \in 1..Len(ws) |-> FormatBin(word2idx[ws[k]], WordBits)])

EntropyBitsOf(bits121, tail) == bits121 \o FormatBin(tail, TailBits)

(* variant: the low nibble of the first digest byte instead of the high one *)
Checksum4LowNibble(sd, entropy_bits) ==
    Sha256Byte0(sd, ToBytes(entropy_bits, EntropyBytes)) % 16

Checksum4(sd, entropy_bits) ==
    ShiftRight(Sha256Byte0(sd, ToBytes(entropy_bits, EntropyBytes)), ChecksumShift)

(* variant: the tail shifted by one bit less than the checksum is wide *)
LastIndexShift3(tail, checksum4) == BitOr(ShiftLeft(tail, ChecksumShift - 1), checksum4)

LastIndex(tail, checksum4) == BitOr(ShiftLeft(tail, ChecksumShift), checksum4)

(* variant: the loop stops one tail short *)
TailRangeShort == NumTails - 1

(* range(128) *)
TailRange == NumTails

-----------------------------------------------------------------------------
(* src/bip39-lastword.py: all_last_words_from_11 *)

(* One iteration of the loop: the tuple appended to out, or the exception
   that ends the call *)
LastWordStep(sd, ws, bits121, tail) ==
    LET entropy_bits == EntropyBitsOf(bits121, tail)
    IN  IF Overflows(entropy_bits, EntropyBytes)
        THEN Raise("OverflowError", <<"int too big to convert">>)
        ELSE LET last_index == LastIndex(tail, Checksum4(sd, entropy_bits))
             IN  IF last_index >= WordlistSize
                 THEN Raise("IndexError", <<"list index out of range">>)
                 ELSE LET last_word == wordlist[last_index + 1]
                          phrase == Join(Append(ws, last_word))
                          ok == MnemonicCheck(sd, phrase)
                      IN  Return([tail |-> tail, index |-> last_index,
                                  word |-> last_word, ok |-> ok])

(* for tail in range(128): the iterations in ascending order; the first one
   that raises ends the call, otherwise the appended tuples are returned *)
RunLoop(steps) ==
    IF \E k \in 1..Len(steps) : steps[k].status = "raise"
    THEN steps[CHOOSE k \in 1..Len(steps) :
                  /\ steps[k].status = "raise"
                  /\ \A j \in 1..(k - 1) : steps[j].status # "raise"]
    ELSE Return([k \in 1..Len(steps) |-> steps[k].value])

(* variant: the words are looked up before they are counted *)
all_last_words_lookup_first(sd, ws) ==
    IF \E k \in 1..Len(ws) : ws[k] \notin DOMAIN word2idx
    THEN Raise("ValueError", UnknownMessage(FirstUnknown(ws)))
    ELSE IF Len(ws) # NumWords THEN Raise("ValueError", CountMessage(Len(ws)))
    ELSE LET bits121 == Bits121(ws)
         IN  RunLoop(SubSeq([k \in 1..TailRange |->
                                LastWordStep(sd, ws, bits121, k - 1)], 1, TailRange))

all_last_words_from_11(sd, ws) ==
    IF Len(ws) # NumWords THEN Raise("ValueError", CountMessage(Len(ws)))
    ELSE IF \E k \in 1..Len(ws) : ws[k] \notin DOMAIN word2idx
         THEN Raise("ValueError", UnknownMessage(FirstUnknown(ws)))
    ELSE IF Len(Bits121(ws)) # 121
         THEN Raise("RuntimeError", <<"Internal error: expected 121 bits from 11 words.">>)
    ELSE LET bits121 == Bits121(ws)
         IN  RunLoop(SubSeq([k \in 1..TailRange |->
                                LastWordStep(sd, ws, bits121, k - 1)], 1, TailRange))

-----------------------------------------------------------------------------
(* src/tools/bip39-lastword.py: all_12word_mnemonics_from_11 *)

MnemonicStep(sd, ws, bits121, tail) ==
    LET entropy_bits == EntropyBitsOf(bits121, tail)
    IN  IF Overflows(entropy_bits, EntropyBytes)
        THEN Raise("OverflowError", <<"int too big to convert">>)
        ELSE LET last_index == LastIndex(tail, Checksum4(sd, entropy_bits))
             IN  IF last_index >= WordlistSize
                 THEN Raise("IndexError", <<"list index out of range">>)
                 ELSE LET words12 == Append(ws, wordlist[last_index + 1])
                          phrase == Join(words12)
                      IN  IF ~MnemonicCheck(sd, phrase)
                          THEN Raise("RuntimeError",
                                 <<"Unexpected: generated mnemonic failed BIP39 check.">>)
                          ELSE Return(phrase)

all_12word_mnemonics_from_11(sd, ws) ==
    IF Len(ws) # NumWords THEN Raise("ValueError", CountMessage(Len(ws)))
    ELSE IF \E k \in 1..Len(ws) : ws[k] \notin DOMAIN word2idx
         THEN Raise("ValueError", UnknownMessage(FirstUnknown(ws)))
    ELSE IF Len(Bits121(ws)) # 121
         THEN Raise("RuntimeError", <<"Internal error: expected 121 bits from 11 words.">>)
    ELSE LET bits121 == Bits121(ws)
         IN  RunLoop(SubSeq([k \in 1..TailRange |->
                                MnemonicStep(sd, ws, bits121, k - 1)], 1, TailRange))

-----------------------------------------------------------------------------
(* normalize_words_arg, in both programs *)

normalize_words_arg(words_arg) ==
    IF Len(words_arg) = 1 THEN Split(Strip(words_arg[1], Space)) ELSE words_arg

(* variant: a return of None taken for a failure *)
ExitStatusNoneFails(ret) == IF ret = <<>> THEN 1 ELSE ret[1]

(* raise SystemExit(main()): a return of None is exit status 0.  main's
   return value is <<>> for None and <<n>> for the integer n. *)
ExitStatus(ret) == IF ret = <<>> THEN 0 ELSE ret[1]

(* an exception that leaves main: traceback on stderr, exit status 1 *)
UncaughtStatus == 1

Traceback(t, m) == << <<"Traceback (most recent call last):">>, <<t, ": ">> \o m >>

-----------------------------------------------------------------------------
(* The inputs of a run *)

Starts == <<0, 2037, 1203, 2044>>

BadTokens ==
    << <<"z", "z", "z">>,
       <<"d", "o", "n", "'", "t">>,
       <<"a", "\\", "b">>,
       <<"A", "a", "a", "a">>,
       <<"'", "a", "b", "'">>,
       <<>>,
       <<"a", "\"", "'", "b">>,
       <<"a", " ", "b">> >>

(* n consecutive wordlist words from Starts[s] on (wrapping around), with
   BadTokens[b] put at position p (if p > 0) and the next bad token at
   position q (if q > 0) *)
InputWords(n, s, p, b, q) ==
    [k \in 1..n |->
        IF k = p THEN BadTokens[b]
        ELSE IF k = q THEN BadTokens[(b % NumBad) + 1]
        ELSE wordlist[((Starts[s] + k - 1) % WordlistSize) + 1]]

(* clean lists of every length, and lists of 10 to MaxWords tokens with one
   or two bad tokens at the first, middle or last position *)
InputLists ==
    { InputWords(n, s, 0, 1, 0) : n \in 0..MaxWords, s \in 1..NumStarts }
    \cup { InputWords(t[1], t[2], t[3], t[4], t[5]) :
             t \in { u \in ((NumWords - 1)..MaxWords) \X (1..NumStarts)
                            \X (1..MaxWords) \X (1..NumBad) \X (0..MaxWords) :
                       /\ u[3] \in {1, (u[1] + 1) \div 2, u[1]}
                       /\ u[5] \in {0, u[1]} \ {u[3]} } }

(* the command line: the tokens as separate arguments, or one quoted string *)
CommandLines ==
    InputLists \cup { << <<Space>> \o Join(ws) \o <<Space>> >> : ws \in InputLists }

(* The state before main runs: nothing printed, no exit status yet (-1) *)
Init ==
    /\ prog \in {"lastword", "tools"}
    /\ seed \in 0..MaxSeed
    /\ argv \in [words : CommandLines, valid_only : BOOLEAN, all : BOOLEAN]
    /\ prog = "tools" => ~argv.valid_only /\ ~argv.all
    /\ pc = "start"
    /\ words11 = <<>>
    /\ res = NoResult
    /\ stdout = <<>>
    /\ stderr = <<>>
    /\ exitcode = -1

-----------------------------------------------------------------------------
(* src/bip39-lastword.py: main, and the exit of the process *)

(* parser.parse_args() with no words: usage and error on stderr, exit 2 *)
ArgparseUsage ==
    << <<"usage: bip39-lastword [-h] [--valid-only] [--all] words [words ...]">>,
       <<"bip39-lastword: error: the following arguments are required: words">> >>

ValidOf(cs) == SelectSeq(cs, LAMBDA x : x.ok)

ValidLines(ws, x) ==
    << <<"Valid 12th word: ">> \o x.word \o <<" (tail=">> \o Decimal(x.tail)
          \o <<", index=">> \o Decimal(x.index) \o <<")">>,
       <<"Full mnemonic: ">> \o Join(Append(ws, x.word)) >>

(* One run of main.  words11 and cands (res) are bound once, as the locals
   of main are; a run with no valid candidate would leave main by the
   IndexError of valid[0]. *)
MainLastword ==
    /\ pc = "start" /\ prog = "lastword"
    /\ pc' = "done"
    /\ IF argv.words = <<>>
       THEN /\ words11' = words11 /\ res' = res /\ stdout' = stdout
            /\ stderr' = ArgparseUsage
            /\ exitcode' = 2
       ELSE \E ws \in {normalize_words_arg(argv.words)} :
            \E r \in {all_last_words_from_11(seed, ws)} :
                /\ words11' = ws
                /\ res' = r
                /\ IF r.status = "raise"
                   THEN /\ stdout' = stdout
                        /\ stderr' = << <<"[bip39-lastword] Error: ">> \o r.msg >>
                        /\ exitcode' = ExitStatus(<<2>>)
                   ELSE IF ValidOf(r.value) = <<>>
                   THEN /\ stdout' = stdout
                        /\ stderr' = Traceback("IndexError", <<"list index out of range">>)
                        /\ exitcode' = UncaughtStatus
                   ELSE /\ stdout' = ValidLines(ws, ValidOf(r.value)[1])
                        /\ stderr' = stderr
                        /\ exitcode' = ExitStatus(<<>>)
    /\ UNCHANGED <<prog, argv, seed>>

-----------------------------------------------------------------------------
(* src/tools/bip39-lastword.py: main, and the exit of the process *)

ToolsUsage ==
    << <<"Usage:">>, <<"  python3 bip39_lastword.py w1 w2 ... w11">>,
       <<"  python3 bip39_lastword.py \"w1 w2 ... w11\"">> >>

MainTools ==
    /\ pc = "start" /\ prog = "tools"
    /\ pc' = "done"
    /\ IF argv.words = <<>>
       THEN /\ words11' = words11 /\ res' = res /\ stdout' = stdout
            /\ stderr' = ToolsUsage
            /\ exitcode' = ExitStatus(<<2>>)
       ELSE \E ws \in {normalize_words_arg(argv.words)} :
            \E r \in {all_12word_mnemonics_from_11(seed, ws)} :
                /\ words11' = ws
                /\ res' = r
                /\ IF r.status = "raise"
                   THEN /\ stdout' = stdout
                        /\ stderr' = << <<"Error: ">> \o r.msg >>
                        /\ exitcode' = ExitStatus(<<2>>)
                   ELSE /\ stdout' = r.value
                        /\ stderr' = stderr
                        /\ exitcode' = ExitStatus(<<0>>)
    /\ UNCHANGED <<prog, argv, seed>>

Next == MainLastword \/ MainTools

Spec == Init /\ [][Next]_vars

-----------------------------------------------------------------------------
(* Vocabulary of the properties *)

Done == pc = "done"

(* the enumerator was called in this run, on words11 *)
Called == Done /\ argv.words # <<>>

AllKnown(ws) == \A k \in 1..Len(ws) : ws[k] \in DOMAIN word2idx

ValidInput == Called /\ Len(words11) = NumWords /\ AllKnown(words11)

Returned == Called /\ res.status = "return"

(* the index of the last word of a space-joined phrase *)
LastWordIndexOf(phrase) ==
    LET ws == SplitOnSpace(phrase, <<>>, <<>>) IN word2idx[ws[Len(ws)]]

(* the last-word index of the k-th entry of the returned list *)
IndexAt(k) ==
    IF prog = "lastword" THEN res.value[k].index ELSE LastWordIndexOf(res.value[k])

(* the number of entries whose validity flag is true *)
NumOk == Cardinality({k \in 1..Len(res.value) : res.value[k].ok})

(* a count of at most two digits, written out *)
TwoDigits(n) ==
    LET d == <<"0", "1", "2", "3", "4", "5", "6", "7", "8", "9">>
    IN  IF n < 10 THEN <<d[n + 1]>> ELSE <<d[(n \div 10) + 1], d[(n % 10) + 1]>>

-----------------------------------------------------------------------------
(* C1: for 11 words that begin a genuine 12-word mnemonic (some 12th word
   completes them to a phrase that passes the check), exactly one of the 128
   candidates returned by all_last_words_from_11 has ok = TRUE and the other
   127 have ok = FALSE. *)
C1_ExactlyOneValid ==
    (Returned /\ prog = "lastword" /\ NumOk >= 1)
        => (Len(res.value) = NumTails /\ NumOk = 1)

-----------------------------------------------------------------------------
(* C2: for 11 words of the wordlist the enumerator returns exactly 128
   candidates, and the one at position k (counted from 0) has tail k: the
   tails are 0..127 ascending, each once.  In the tools program a candidate
   is its phrase, whose tail is the top 7 bits of its last word's index. *)
C2_TailsAscending ==
    ValidInput =>
        /\ res.status = "return"
        /\ Len(res.value) = NumTails
        /\ \A k \in 1..Len(res.value) :
              /\ IndexAt(k) \div 16 = k - 1
              /\ prog = "lastword" => res.value[k].tail = k - 1

C2_Witness ==
    /\ ValidInput /\ prog = "lastword" /\ Returned
    /\ Len(res.value) = 128
    /\ res.value[1].tail = 0 /\ res.value[128].tail = 127

-----------------------------------------------------------------------------
(* C3: every candidate the enumerator builds passes the validator's
   recomputation of the checksum, so ok is TRUE for each of them, and
   all_12word_mnemonics_from_11 never raises the "failed BIP39 check" error
   and returns 128 phrases. *)
C3_SelfCheckHolds ==
    ValidInput =>
        /\ res.status = "return"
        /\ Len(res.value) = NumTails
        /\ prog = "lastword" => \A k \in 1..Len(res.value) : res.value[k].ok
        /\ prog = "tools" =>
              \A k \in 1..Len(res.value) : MnemonicCheck(seed, res.value[k])

C3_Witness ==
    /\ ValidInput /\ prog = "tools" /\ Returned
    /\ Len(res.value) = 128
    /\ MnemonicCheck(seed, res.value[128])

-----------------------------------------------------------------------------
(* C4: for a list of n # 11 words, known or not, the enumerator raises the
   word-count error, whose message reports n, and produces no candidate. *)
C4_CountError ==
    (Called /\ Len(words11) # NumWords) =>
        /\ res.status = "raise"
        /\ res.type = "ValueError"
        /\ res.msg = <<"Expected exactly 11 words, got ">>
                        \o TwoDigits(Len(words11)) \o <<".">>
        /\ res.value = <<>>
        /\ stdout = <<>>

C4_Witness ==
    /\ Called /\ Len(words11) = 12 /\ ~AllKnown(words11)
    /\ res.status = "raise"
    /\ res.msg = <<"Expected exactly 11 words, got ", "1", "2", ".">>

-----------------------------------------------------------------------------
(* C5: for 11 tokens of which at least one is not in the wordlist, the
   enumerator raises the unknown-word error before any candidate is built,
   and the message names the first such token, character for character. *)
C5_NamesToken ==
    (Called /\ Len(words11) = NumWords /\ ~AllKnown(words11)) =>
        /\ res.status = "raise"
        /\ res.type = "ValueError"
        /\ res.value = <<>>
        /\ res.msg = <<"Word not in BIP39 English wordlist: '">>
                        \o FirstUnknown(words11) \o <<"'">>

-----------------------------------------------------------------------------
(* The case of no valid candidate: whenever all_last_words_from_11 returns,
   at least one candidate has ok = TRUE, so main of src/bip39-lastword.py
   never reaches line 125 with an empty `valid` list. *)
SomeCandidateValid == (Returned /\ prog = "lastword") => NumOk >= 1

-----------------------------------------------------------------------------
(* C7: main, in both programs: on 11 words of the wordlist with a valid
   candidate, the output holds the full phrase of a valid candidate and the
   exit status is 0; on a wrong word count or an unknown word, a message is
   written to stderr, nothing to stdout, and the exit status is not 0. *)
PrintsValidPhrase ==
    \E k \in 1..Len(res.value) :
        LET w == wordlist[IndexAt(k) + 1]
            full == Join(Append(words11, w))
        IN  /\ MnemonicCheck(seed, full)
            /\ \E i \in 1..Len(stdout) :
                  \/ stdout[i] = full
                  \/ /\ prog = "lastword"
                     /\ stdout[i] = <<"Full mnemonic: ">> \o full
                     /\ \E j \in 1..Len(stdout) :
                           SubSeq(stdout[j], 1, 1 + Len(w)) = <<"Valid 12th word: ">> \o w

C7_ExitSemantics ==
    /\ ValidInput => (exitcode = 0 /\ PrintsValidPhrase)
    /\ (Done /\ ~ValidInput) => (exitcode > 0 /\ stderr # <<>> /\ stdout = <<>>)

C7_Witness ==
    /\ ValidInput /\ prog = "lastword" /\ exitcode = 0 /\ PrintsValidPhrase

-----------------------------------------------------------------------------
(* C8: src/bip39-lastword.py without --valid-only prints all 128 candidates
   in ascending tail order, the valid one marked; only with --valid-only
   does it print just the valid 12th word and the full mnemonic. *)
C8_PrintsAllByDefault ==
    (Returned /\ prog = "lastword" /\ ~argv.valid_only) => Len(stdout) >= NumTails

-----------------------------------------------------------------------------
(* C9: when more than one candidate has ok = TRUE, src/bip39-lastword.py
   tells the caller so (a warning on stderr or further output); it does not
   just print the first valid candidate as if it were the only one. *)
C9_WarnsOnMultiple ==
    (Returned /\ prog = "lastword" /\ NumOk > 1) =>
        (stderr # <<>> \/ Len(stdout) > 2)

-----------------------------------------------------------------------------
(* C10: for every tail in 0..127 and every 4-bit checksum, the last-word
   index is 16 * tail + checksum, within 0..2047, with index div 16 = tail
   and index mod 16 = checksum; so the 128 candidates of a run have pairwise
   distinct last-word indices and distinct 12th words. *)
C10_IndexArithmetic ==
    ValidInput =>
        /\ \A t \in 0..(NumTails - 1), c \in 0..15 :
              \E i \in {LastIndex(t, c)} :
                 /\ i = 16 * t + c
                 /\ i \in 0..(WordlistSize - 1)
                 /\ i \div 16 = t
                 /\ i % 16 = c
        /\ res.status = "return"
        /\ \E bits121 \in {Bits121(words11)} :
              \A k \in 1..Len(res.value) :
                 /\ IndexAt(k) \in 0..(WordlistSize - 1)
                 /\ IndexAt(k) % 16 = Checksum4(seed, EntropyBitsOf(bits121, k - 1))
        /\ Cardinality({IndexAt(k) : k \in 1..Len(res.value)}) = Len(res.value)
        /\ Cardinality({wordlist[IndexAt(k) + 1] : k \in 1..Len(res.value)})
              = Len(res.value)

C10_Witness ==
    /\ ValidInput /\ Returned /\ Len(res.value) = 128
    /\ IndexAt(1) \in 0..15
    /\ IndexAt(128) \in 2032..2047

=============================================================================
